---------------------------- MODULE Spec2Model ----------------------------
(***************************************************************************)
(* Model of the source validation engine of sourcify                       *)
(* (services/validation/src/ValidationService.ts): archive expansion,      *)
(* document classification, the variation hash index, source resolution    *)
(* and source-set widening.                                                *)
(*                                                                         *)
(* Representation.                                                         *)
(*   - A string is a sequence of one-character strings.                    *)
(*   - A path is a sequence of path segments; <<>> is an absent (or empty) *)
(*     path label, which JavaScript treats as falsy.                       *)
(*   - A JavaScript object used as a map (StringMap, MissingSources, ...)  *)
(*     and a Map are functions with a finite domain; <<>> is the empty one.*)
(*   - A buffer is a record that tells what the libraries make of the      *)
(*     bytes: whether AdmZip opens it, the directory tree extraction       *)
(*     leaves on disk, its text, whether the text holds the hardhat marker,*)
(*     and what JSON.parse returns for the text.                           *)
(***************************************************************************)
EXTENDS Integers, Sequences, FiniteSets, TLC

VARIABLES files, runs, widened, staging, dirCount, disk, ignoring, pathRuns

vars == <<files, runs, widened, staging, dirCount, disk, ignoring, pathRuns>>

-----------------------------------------------------------------------------
(* Generic helpers for sequences and maps. *)

Range(s) == { s[i] : i \in DOMAIN s }

Front(s) == SubSeq(s, 1, Len(s) - 1)

Last(s) == s[Len(s)]

EmptyMap == <<>>

(* The one key under which an assignment on a plain object makes no      *)
(* property of the object: it reaches the setter of Object.prototype.    *)
(* Keys are paths, a path a sequence of names.                           *)
ProtoKey == << "__proto__" >>

(* obj[k] = v on a plain object ({}), as a map of the own properties. *)
MapSet(m, k, v) ==
    IF k = ProtoKey THEN m
    ELSE [x \in (DOMAIN m) \cup {k} |-> IF x = k THEN v ELSE m[x]]

-----------------------------------------------------------------------------
(* Strings. *)

CR == "\r"

LF == "\n"

SP == " "

Whitespace == {CR, LF, SP}

(* The characters of the modelled source texts, with their digit in the   *)
(* base-8 hash numeral below.                                              *)
CharCode(ch) ==
    CASE ch = "a" -> 1
      [] ch = "b" -> 2
      [] ch = CR  -> 3
      [] ch = LF  -> 4
      [] ch = SP  -> 5
      [] ch = "{" -> 6
      [] ch = "}" -> 7

(* Web3.utils.keccak256 on a text.  The digest is modelled as a numeral   *)
(* that is injective on texts (a collision-free hash): distinct texts get *)
(* distinct digests, equal texts the same one.  Digest 0 is the digest of *)
(* the empty text.                                                        *)
RECURSIVE keccak256(_)
keccak256(s) ==
    IF s = <<>> THEN 0
    ELSE keccak256(Front(s)) * 8 + CharCode(Last(s))

(* content.replace(/\r?\n/g, "\r\n") *)
RECURSIVE ToCRLF(_)
ToCRLF(s) ==
    IF s = <<>> THEN <<>>
    ELSE IF Len(s) >= 2 /\ s[1] = CR /\ s[2] = LF
         THEN <<CR, LF>> \o ToCRLF(SubSeq(s, 3, Len(s)))
    ELSE IF s[1] = LF THEN <<CR, LF>> \o ToCRLF(Tail(s))
    ELSE <<s[1]>> \o ToCRLF(Tail(s))

(* content.replace(/\r\n/g, "\n") *)
RECURSIVE ToLF(_)
ToLF(s) ==
    IF s = <<>> THEN <<>>
    ELSE IF Len(s) >= 2 /\ s[1] = CR /\ s[2] = LF
         THEN <<LF>> \o ToLF(SubSeq(s, 3, Len(s)))
    ELSE <<s[1]>> \o ToLF(Tail(s))

(* content.trimEnd() *)
RECURSIVE trimEnd(_)
trimEnd(s) ==
    IF s = <<>> THEN <<>>
    ELSE IF Last(s) \in Whitespace THEN trimEnd(Front(s))
    ELSE s

(* CONTENT_VARIATORS[i] applied to a text. *)
ContentVariator(i, s) ==
    CASE i = 1 -> s
      [] i = 2 -> ToCRLF(s)
      [] i = 3 -> ToLF(s)

NumContentVariators == 3

(* ENDING_VARIATORS[j] applied to a text. *)
EndingVariator(j, s) ==
    CASE j = 1 -> s
      [] j = 2 -> trimEnd(s)
      [] j = 3 -> trimEnd(s) \o <<LF>>
      [] j = 4 -> trimEnd(s) \o <<CR, LF>>
      [] j = 5 -> s \o <<LF>>
      [] j = 6 -> s \o <<CR, LF>>

NumEndingVariators == 6

-----------------------------------------------------------------------------
(* Variation hash index. *)

(* generateVariations: the 3 x 6 variations of a source file, content     *)
(* variators outermost, each carrying the path of the original file.      *)
generateVariations(pathContent) ==
    [n \in 1..(NumContentVariators * NumEndingVariators) |->
       [path    |-> pathContent.path,
        content |-> EndingVariator(((n - 1) % NumEndingVariators) + 1,
                       ContentVariator(((n - 1) \div NumEndingVariators) + 1,
                                       pathContent.content))]]

(* The variations storeByHash walks through, in the order of its two      *)
(* loops: file by file, and for each file its variations in order.        *)
allVariations(sourceFiles) ==
    LET perFile == [i \in DOMAIN sourceFiles |-> generateVariations(sourceFiles[i])]
        n == NumContentVariators * NumEndingVariators
    IN  [k \in 1..(n * Len(sourceFiles)) |->
            perFile[((k - 1) \div n) + 1][((k - 1) % n) + 1]]

(* storeByHash that stores the submitted file under the hash of each of   *)
(* its variations, instead of the variation.                              *)
storeByHashOriginal(sourceFiles) ==
    LET n          == NumContentVariators * NumEndingVariators
        variations == allVariations(sourceFiles)
        hashOf     == [k \in DOMAIN variations |-> keccak256(variations[k].content)]
        lastSet(h) == LET setAt == { k \in DOMAIN variations : hashOf[k] = h }
                      IN  CHOOSE k \in setAt : \A j \in setAt : j <= k
    IN  [h \in Range(hashOf) |-> sourceFiles[((lastSet(h) - 1) \div n) + 1]]

(* storeByHash: byHash.set(keccak256(variation.content), variation) for   *)
(* every variation in turn, so that a hash maps to the variation that was *)
(* set last under it.                                                     *)
storeByHash(sourceFiles) ==
    LET variations == allVariations(sourceFiles)
        hashOf     == [k \in DOMAIN variations |-> keccak256(variations[k].content)]
        lastSet(h) == LET setAt == { k \in DOMAIN variations : hashOf[k] = h }
                      IN  CHOOSE k \in setAt : \A j \in setAt : j <= k
    IN  [h \in Range(hashOf) |-> variations[lastSet(h)]]

-----------------------------------------------------------------------------
(* Source resolver. *)

(* JavaScript truthiness of a string that may be undefined: undefined and *)
(* the empty string are both falsy.                                       *)
Truthy(has, str) == has /\ str # <<>>

EmptyResolution ==
    [foundSources      |-> EmptyMap,
     missingSources    |-> EmptyMap,
     invalidSources    |-> EmptyMap,
     metadata2provided |-> EmptyMap]

(* One iteration of the loop of rearrangeSources, for the declared source *)
(* src = metadata.sources[sourcePath] with src.path = sourcePath.         *)
rearrangeSource(acc, src, byHash) ==
    LET expectedHash == src.keccak256 IN
    IF Truthy(src.hasContent, src.content)
    THEN \* Source content already in metadata
         LET contentHash == keccak256(src.content) IN
         IF contentHash # expectedHash
         THEN [acc EXCEPT !.invalidSources =
                   MapSet(@, src.path, [expectedHash   |-> expectedHash,
                                        calculatedHash |-> contentHash])]
         ELSE [acc EXCEPT !.foundSources = MapSet(@, src.path, src.content)]
    ELSE \* Get source from input files by hash
         IF expectedHash \in DOMAIN byHash
         THEN LET pathContent == byHash[expectedHash]
                  acc2 == [acc EXCEPT !.metadata2provided =
                               MapSet(@, src.path, pathContent.path)]
              IN  IF pathContent.content # <<>>
                  THEN [acc2 EXCEPT !.foundSources =
                            MapSet(@, src.path, pathContent.content)]
                  ELSE [acc2 EXCEPT !.missingSources =
                            MapSet(@, src.path, [keccak256 |-> expectedHash,
                                                 urls      |-> src.urls])]
         ELSE [acc EXCEPT !.missingSources =
                   MapSet(@, src.path, [keccak256 |-> expectedHash,
                                        urls      |-> src.urls])]

RECURSIVE rearrangeFrom(_, _, _, _)
rearrangeFrom(acc, sources, byHash, i) ==
    IF i > Len(sources) THEN acc
    ELSE rearrangeFrom(rearrangeSource(acc, sources[i], byHash), sources, byHash, i + 1)

(* rearrangeSources(metadata, byHash) *)
rearrangeSources(metadata, byHash) ==
    rearrangeFrom(EmptyResolution, metadata.sources, byHash, 1)

-----------------------------------------------------------------------------
(* Documents.                                                              *)
(*                                                                         *)
(* A Doc tells what JSON.parse makes of a text:                            *)
(*   [syntax |-> "invalid"]               JSON.parse throws                *)
(*   [syntax |-> "string", inner |-> d]   a JSON string whose value is a   *)
(*                                        text that parses as d            *)
(*   [syntax |-> "object", ...]           a JSON object with the fields    *)
(*                                        the engine reads (see JsonObject)*)
(* NullDoc is the JavaScript null.                                         *)

InvalidDoc == [syntax |-> "invalid"]

NullDoc == [syntax |-> "null"]

StringDoc(d) == [syntax |-> "string", inner |-> d]

(* A JSON object.  compilationTarget is settings.compilationTarget as the *)
(* sequence of its entries; sources is the sequence of the declared       *)
(* sources in key order, each [path, hasContent, content, keccak256,      *)
(* urls]; input and output hold at most one element (the field may be     *)
(* absent): input[1].sources is a sequence of [path, content] and         *)
(* output[1].contracts is the sequence of the metadata strings of the     *)
(* contracts, each <<>> (absent or empty) or <<d>> with d its Doc.        *)
JsonObject(language, compiler, compilationTarget, sources, input, output) ==
    [syntax            |-> "object",
     language          |-> language,
     compiler          |-> compiler,
     compilationTarget |-> compilationTarget,
     sources           |-> sources,
     input             |-> input,
     output            |-> output]

(* isMetadata(obj) for an object, a string or a number (null throws in    *)
(* the caller's try block).                                               *)
isMetadata(obj) ==
    /\ obj.syntax = "object"
    /\ obj.language = "Solidity"
    /\ obj.compiler

(* extractMetadataFromString: the metadata object, or NullDoc.  The first *)
(* JSON.parse may yield the metadata itself; otherwise its result is      *)
(* parsed once more, which succeeds only on a string.                     *)
extractMetadataFromString(doc) ==
    IF doc.syntax = "invalid" THEN NullDoc
    ELSE IF isMetadata(doc) THEN doc
    ELSE IF doc.syntax = "string" /\ doc.inner.syntax # "invalid"
              /\ doc.inner.syntax # "null" /\ isMetadata(doc.inner)
         THEN doc.inner
    ELSE NullDoc

(* assertObjectSize(object, expectedSize) throws: TRUE when it throws.    *)
assertObjectSizeThrows(object, expectedSize) == Len(object) # expectedSize

ExpectedTargets == 1

(* extractHardhatMetadataAndSources on a file whose text holds the marker.*)
(* threw is "" or the name of the exception that escapes.                 *)
extractHardhatMetadataAndSources(hardhatFile) ==
    LET hardhatJson == hardhatFile.json IN
    IF hardhatJson.syntax = "invalid"
    THEN [threw |-> "SyntaxError", hardhatMetadataFiles |-> <<>>, hardhatSourceFiles |-> <<>>]
    ELSE IF hardhatJson.syntax # "object" \/ hardhatJson.input = <<>>
              \/ hardhatJson.output = <<>>
    THEN [threw |-> "TypeError", hardhatMetadataFiles |-> <<>>, hardhatSourceFiles |-> <<>>]
    ELSE LET srcs  == hardhatJson.input[1].sources
             ctrs  == hardhatJson.output[1].contracts
             keepS == SelectSeq(srcs, LAMBDA x : x.content # <<>>)
             keepC == SelectSeq(ctrs, LAMBDA c : c # <<>>)
         IN  [threw |-> "",
              hardhatSourceFiles   |->
                  [i \in 1..Len(keepS) |-> [path |-> keepS[i].path, content |-> keepS[i].content]],
              hardhatMetadataFiles |->
                  [i \in 1..Len(keepC) |-> extractMetadataFromString(keepC[i][1])]]

(* The body of the loop of splitFiles for one file, on the accumulator    *)
(* acc = [threw, metadataFiles, sourceFiles, malformedMetadataFiles].     *)
splitFile(acc, file) ==
    IF file.marker
    THEN \* hardhat output file
         LET h == extractHardhatMetadataAndSources(file) IN
         IF h.threw # "" THEN [acc EXCEPT !.threw = h.threw]
         ELSE [acc EXCEPT !.sourceFiles   = @ \o h.hardhatSourceFiles,
                          !.metadataFiles = @ \o h.hardhatMetadataFiles]
    ELSE LET direct   == extractMetadataFromString(file.json)
             metadata == IF direct = NullDoc /\ file.nested # <<>>
                         THEN extractMetadataFromString(file.nested[1])
                         ELSE direct
         IN  IF metadata # NullDoc
             THEN IF assertObjectSizeThrows(metadata.compilationTarget, ExpectedTargets)
                  THEN [acc EXCEPT !.malformedMetadataFiles = Append(@, file.path)]
                  ELSE [acc EXCEPT !.metadataFiles = Append(@, metadata)]
             ELSE [acc EXCEPT !.sourceFiles =
                       Append(@, [path |-> file.path, content |-> file.text])]

RECURSIVE splitFrom(_, _, _)
splitFrom(acc, parsedFiles, i) ==
    IF i > Len(parsedFiles) \/ acc.threw # "" THEN acc
    ELSE splitFrom(splitFile(acc, parsedFiles[i]), parsedFiles, i + 1)

(* splitFiles that does not throw when it found no metadata file. *)
splitFilesNoNotFound(parsedFiles) ==
    LET acc == splitFrom([threw |-> "", metadataFiles |-> <<>>, sourceFiles |-> <<>>,
                          malformedMetadataFiles |-> <<>>], parsedFiles, 1)
    IN  IF acc.threw # "" THEN acc
        ELSE IF acc.malformedMetadataFiles # <<>>
             THEN [acc EXCEPT !.threw = "Malformed settings.compilationTarget"]
        ELSE acc

(* splitFiles: the classification, and the exception it ends with if any. *)
splitFiles(parsedFiles) ==
    LET acc == splitFrom([threw |-> "", metadataFiles |-> <<>>, sourceFiles |-> <<>>,
                          malformedMetadataFiles |-> <<>>], parsedFiles, 1)
    IN  IF acc.threw # "" THEN acc
        ELSE IF acc.malformedMetadataFiles # <<>>
             THEN [acc EXCEPT !.threw = "Malformed settings.compilationTarget"]
        ELSE IF acc.metadataFiles = <<>>
             THEN [acc EXCEPT !.threw = "Metadata file not found"]
        ELSE acc

-----------------------------------------------------------------------------
(* Archive expander.                                                       *)
(*                                                                         *)
(* A file (PathBuffer) is a record                                         *)
(*   path     the path label, <<>> when the caller gave none               *)
(*   isZip    whether new AdmZip(buffer) succeeds                          *)
(*   members  for an archive: its entries in the order of the archive,     *)
(*            each with its path relative to the archive root              *)
(*   text     buffer.toString()                                            *)
(*   marker   whether the text matches HARDHAT_OUTPUT_FORMAT_REGEX         *)
(*   json     the Doc of the text                                          *)
(*   nested   <<>>, or <<d>> with d the Doc of the substring that          *)
(*            NESTED_METADATA_REGEX matches in the text                    *)
(*   damaged  for an entry of an archive: whether its compressed data     *)
(*            cannot be decompressed                                      *)
(*   isDir    for an entry of an archive: whether it is a directory       *)

isZip(file) == file.isZip

(* The name of the n-th staging directory ever created (in the code a     *)
(* time stamp and a random number make it fresh).                         *)
TmpDir(n) == "tmp-unzipped-" \o ToString(n)

(* The file and directory names of the model in the order readdirSync    *)
(* lists them: by the bytes of the name.                                  *)
NameOrder ==
    << "1.sol", "2.sol", "A.sol", "B.sol", "C.sol", "Marker.sol", "N.sol",
       "__proto__", "a.sol", "artifact.json", "bad.json",
       "build-info.json", "contracts", "damaged.zip", "docs", "docs.zip",
       "empty.zip", "in", "inner.zip", "lib", "m", "metadata.json",
       "mixed.json", "nowhere", "other.json", "outer.zip", "project.zip",
       "truffle.json", "z.sol" >>

NameRank(name) == CHOOSE i \in DOMAIN NameOrder : NameOrder[i] = name

(* Whether the walk of traversePathRecursively comes to p before q: the   *)
(* names of a directory are visited in the order of readdirSync, a        *)
(* directory wholly before the next name.                                 *)
RECURSIVE PathLess(_, _)
PathLess(p, q) ==
    IF p = <<>> THEN q # <<>>
    ELSE IF q = <<>> THEN FALSE
    ELSE IF Head(p) = Head(q) THEN PathLess(Tail(p), Tail(q))
    ELSE NameRank(Head(p)) < NameRank(Head(q))

(* Files and directories on disk are records of filePath and buffer (the  *)
(* file record; isDir for a directory).                                   *)
IsBelow(filePath, path) ==
    Len(filePath) >= Len(path) /\ SubSeq(filePath, 1, Len(path)) = path

(* fs.existsSync(path) *)
existsSync(path, onDisk) ==
    \E e \in onDisk : IsBelow(e.filePath, path)

(* traversePathRecursively(path, worker): the files worker is called      *)
(* with, in order, for a path that exists.                                *)
RECURSIVE walkFrom(_)
walkFrom(below) ==
    IF below = {} THEN <<>>
    ELSE LET first == CHOOSE e \in below :
                          \A o \in below \ {e} : PathLess(e.filePath, o.filePath)
         IN  <<first>> \o walkFrom(below \ {first})

traversePathRecursively(path, onDisk) ==
    walkFrom({ e \in onDisk : IsBelow(e.filePath, path) /\ ~e.buffer.isDir })

(* extractAllTo(tmpDir): the files and directories on disk below tmpDir   *)
(* afterwards, and whether the call threw.  The entries are extracted in  *)
(* the order of the archive; a file is written to tmpDir joined with its  *)
(* entry name, a directory is made, and directories are made as files     *)
(* need them.  An entry whose data cannot be decompressed makes the call  *)
(* throw, with the entries before it already written.                     *)
extractAllTo(zippedFile, tmpDir) ==
    LET members == zippedFile.members
        bad     == { i \in DOMAIN members : members[i].damaged }
        upTo    == IF bad = {} THEN Len(members)
                   ELSE (CHOOSE i \in bad : \A j \in bad : i <= j) - 1
    IN  [onDisk |-> { [filePath |-> <<tmpDir>> \o members[i].path,
                       buffer   |-> members[i]] : i \in 1..upTo },
         threw  |-> bad # {}]

(* filePath.slice(tmpDir.length + 1), in path segments: the staging       *)
(* directory is the first segment of filePath.                            *)
stripTmpDir(filePath, tmpDir) == SubSeq(filePath, Len(<<tmpDir>>) + 1, Len(filePath))

(* The body of unzip after extraction: threw is whether extractAllTo      *)
(* threw, exists whether the staging directory exists, walked the files   *)
(* the walk of the staging directory visits.                              *)
unzipped(fileList, dirs, tmpDir, threw, exists, walked) ==
    IF threw
    THEN [files |-> fileList,
          staging |-> IF exists THEN dirs \cup {tmpDir} ELSE dirs,
          threw |-> "Cannot extract file"]
    ELSE IF ~exists
    THEN [files |-> fileList, staging |-> dirs,
          threw |-> "Encountered a nonexistent path"]
    ELSE [files   |-> fileList \o
                      [i \in 1..Len(walked) |->
                          [walked[i].buffer EXCEPT
                              !.path = stripTmpDir(walked[i].filePath, tmpDir)]],
          staging |-> (dirs \cup {tmpDir}) \ {tmpDir},
          threw   |-> ""]

unzipTo(fileList, dirs, tmpDir, extracted) ==
    unzipped(fileList, dirs, tmpDir, extracted.threw,
             existsSync(<<tmpDir>>, extracted.onDisk),
             traversePathRecursively(<<tmpDir>>, extracted.onDisk))

(* unzip(zippedFile, files) as the n-th extraction: the list with the     *)
(* extracted files pushed in the order of the directory walk, the staging *)
(* directories left on disk, and the exception that escapes, if any.  An  *)
(* exception of extractAllTo escapes with what was written left below the *)
(* staging directory.  traversePathRecursively throws when the staging    *)
(* directory does not exist, which is so when extraction wrote nothing.   *)
unzip(zippedFile, fileList, n, dirs) ==
    unzipTo(fileList, dirs, TmpDir(n), extractAllTo(zippedFile, TmpDir(n)))

(* The state of the loop of traverseAndUnzipFiles after an unzip. *)
unzippedInto(st, u) ==
    [st EXCEPT !.files = u.files, !.staging = u.staging,
               !.threw = u.threw, !.dirCount = @ + 1]

(* The loop of traverseAndUnzipFiles from the i-th element of the list    *)
(* on; the list grows while it is iterated.                               *)
RECURSIVE traverseFrom(_, _)
traverseFrom(st, i) ==
    IF i > Len(st.files) \/ st.threw # "" THEN st
    ELSE IF isZip(st.files[i])
         THEN traverseFrom(
                  unzippedInto(st, unzip(st.files[i], st.files, st.dirCount + 1, st.staging)),
                  i + 1)
         ELSE traverseFrom([st EXCEPT !.inputFiles = Append(@, st.files[i])], i + 1)

(* traverseAndUnzipFiles(files): inputFiles is the value returned, files  *)
(* the caller's list afterwards.                                          *)
traverseAndUnzipFiles(fileList, n, dirs) ==
    traverseFrom([files |-> fileList, inputFiles |-> <<>>, dirCount |-> n,
                  staging |-> dirs, threw |-> ""], 1)

-----------------------------------------------------------------------------
(* Checked contracts and the entry points. *)

(* new CheckedContract(metadata, solidity, missing, invalid) *)
CheckedContract(metadata, solidity, missing, invalid) ==
    [metadata |-> metadata, solidity |-> solidity, missing |-> missing,
     invalid  |-> invalid]

(* The forEach of checkFiles over the metadata files from the i-th on.    *)
(* rearrangeSources reads metadata.sources, which throws on null.         *)
RECURSIVE checkFrom(_, _, _, _)
checkFrom(acc, metadataFiles, byHash, i) ==
    IF i > Len(metadataFiles) \/ acc.threw # "" THEN acc
    ELSE IF metadataFiles[i] = NullDoc THEN [acc EXCEPT !.threw = "TypeError"]
    ELSE LET r == rearrangeSources(metadataFiles[i], byHash) IN
         checkFrom([acc EXCEPT
                       !.contracts = Append(@, CheckedContract(metadataFiles[i],
                                        r.foundSources, r.missingSources, r.invalidSources)),
                       !.provided  = Append(@, r.metadata2provided)],
                   metadataFiles, byHash, i + 1)

(* checkFiles after the expansion t and the classification split of the  *)
(* flat list: the index, then a contract for every metadata document.     *)
checkRun(fileList, t, metadataFiles, sourceFiles, contracts, provided, threw) ==
    [input |-> fileList, files |-> t.files, dirCount |-> t.dirCount,
     staging |-> t.staging, flat |-> t.inputFiles,
     metadataFiles |-> metadataFiles, sourceFiles |-> sourceFiles,
     contracts |-> contracts, provided |-> provided, threw |-> threw]

checkChecked(fileList, t, split, c) ==
    IF c.threw # ""
    THEN checkRun(fileList, t, split.metadataFiles, split.sourceFiles, <<>>, <<>>, c.threw)
    ELSE checkRun(fileList, t, split.metadataFiles, split.sourceFiles,
                  c.contracts, c.provided, "")

checkSplit(fileList, t, split) ==
    IF split.threw # ""
    THEN checkRun(fileList, t, <<>>, <<>>, <<>>, <<>>, split.threw)
    ELSE checkChecked(fileList, t, split,
                      checkFrom([contracts |-> <<>>, provided |-> <<>>, threw |-> ""],
                                split.metadataFiles, storeByHash(split.sourceFiles), 1))

checkUnzipped(fileList, t) ==
    IF t.threw # ""
    THEN [checkRun(fileList, t, <<>>, <<>>, <<>>, <<>>, t.threw) EXCEPT !.flat = <<>>]
    ELSE checkSplit(fileList, t, splitFiles(t.inputFiles))

(* checkFiles(files) as a whole.  The record keeps what the call computed:*)
(* the caller's list before and after, the flat list, the classification, *)
(* and either the exception (threw) or the returned contracts, with the   *)
(* metadata2provided map of each.                                         *)
checkFiles(fileList, n, dirs) ==
    checkUnzipped(fileList, traverseAndUnzipFiles(fileList, n, dirs))

(* The key taken from the index alone, whether or not there is a path. *)
pathKeyByIndex(elem, i) ==
    << "path-" \o ToString(i) >>

(* The key pathContentArrayToStringMap gives the element at index i       *)
(* (counted from 0).                                                      *)
pathKey(elem, i) ==
    IF elem.path # <<>> THEN elem.path ELSE << "path-" \o ToString(i) >>

RECURSIVE stringMapFrom(_, _, _)
stringMapFrom(stringMapResult, pathContentArr, k) ==
    IF k > Len(pathContentArr) THEN stringMapResult
    ELSE stringMapFrom(MapSet(stringMapResult, pathKey(pathContentArr[k], k - 1),
                              pathContentArr[k].content),
                       pathContentArr, k + 1)

pathContentArrayToStringMap(pathContentArr) ==
    stringMapFrom(EmptyMap, pathContentArr, 1)

(* Object.assign(target, source): target[k] = source[k] for every own    *)
(* property k of source.                                                 *)
ObjectAssign(target, source) ==
    LET assigned == (DOMAIN source) \ {ProtoKey}
    IN  [k \in (DOMAIN target) \cup assigned |->
            IF k \in assigned THEN source[k] ELSE target[k]]

(* useAllSources after the expansion t and the classification split. *)
widenRun(contract, fileList, t, sourceFiles, result, threw) ==
    [contract |-> contract, input |-> fileList, files |-> t.files,
     dirCount |-> t.dirCount, staging |-> t.staging,
     sourceFiles |-> sourceFiles, result |-> result, threw |-> threw]

widenSplit(contract, fileList, t, split) ==
    IF split.threw # "" THEN widenRun(contract, fileList, t, <<>>, <<>>, split.threw)
    ELSE widenRun(contract, fileList, t, split.sourceFiles,
                  << CheckedContract(contract.metadata,
                        ObjectAssign(pathContentArrayToStringMap(split.sourceFiles),
                                     contract.solidity),
                        contract.missing, contract.invalid) >>,
                  "")

widenUnzipped(contract, fileList, t) ==
    IF t.threw # "" THEN widenRun(contract, fileList, t, <<>>, <<>>, t.threw)
    ELSE widenSplit(contract, fileList, t, splitFiles(t.inputFiles))

(* useAllSources(contract, files) as a whole. *)
useAllSources(contract, fileList, n, dirs) ==
    widenUnzipped(contract, fileList, traverseAndUnzipFiles(fileList, n, dirs))

(* Path.resolve(filePath): the path below the working directory. *)
Cwd == << "work" >>

resolve(filePath) == Cwd \o filePath

(* The forEach of checkPaths from the k-th path on. *)
RECURSIVE readFrom(_, _, _, _, _)
readFrom(acc, paths, hasIgnoring, onDisk, k) ==
    IF k > Len(paths) THEN acc
    ELSE IF existsSync(paths[k], onDisk)
    THEN LET walked == traversePathRecursively(paths[k], onDisk)
         IN  readFrom([acc EXCEPT !.files = @ \o
                          [i \in 1..Len(walked) |->
                              [walked[i].buffer EXCEPT
                                  !.path = resolve(walked[i].filePath)]]],
                      paths, hasIgnoring, onDisk, k + 1)
    ELSE IF hasIgnoring
    THEN readFrom([acc EXCEPT !.ignoring = Append(@, paths[k])],
                  paths, hasIgnoring, onDisk, k + 1)
    ELSE readFrom(acc, paths, hasIgnoring, onDisk, k + 1)

(* checkPaths after the forEach. *)
checkRead(paths, hasIgnoring, read, n, dirs) ==
    [paths |-> paths, hasIgnoring |-> hasIgnoring, ignoring |-> read.ignoring,
     run |-> checkFiles(read.files, n, dirs)]

(* checkPaths(paths, ignoring) as a whole, with the files and directories *)
(* onDisk: the paths given, the caller's ignoring array afterwards (when  *)
(* the caller gave one) and what checkFiles did with the files read.      *)
checkPaths(paths, hasIgnoring, unreadable, onDisk, n, dirs) ==
    checkRead(paths, hasIgnoring,
              readFrom([files |-> <<>>, ignoring |-> unreadable],
                       paths, hasIgnoring, onDisk, 1),
              n, dirs)

-----------------------------------------------------------------------------
(* The submitted files the model draws its inputs from. *)

TextA == <<"a">>

TextALF == <<"a", LF>>

TextACRLF == <<"a", CR, LF>>

TextB == <<"b">>

TextBlank == <<LF>>

PathA == <<"A.sol">>

PathB == <<"B.sol">>

NoUrls == <<>>

(* A file that is neither an archive nor a structured document. *)
PlainFile(path, text) ==
    [path |-> path, isZip |-> FALSE, members |-> <<>>, text |-> text,
     marker |-> FALSE, json |-> InvalidDoc, nested |-> <<>>, damaged |-> FALSE,
     isDir |-> FALSE]

(* A file whose text is a document; the text is abridged to its braces.   *)
DocFile(path, marker, json, nested) ==
    [path |-> path, isZip |-> FALSE, members |-> <<>>, text |-> <<"{", "}">>,
     marker |-> marker, json |-> json, nested |-> nested, damaged |-> FALSE,
     isDir |-> FALSE]

(* A zip archive with the given members. *)
ZipFile(path, members) ==
    [path |-> path, isZip |-> TRUE, members |-> members, text |-> <<>>,
     marker |-> FALSE, json |-> InvalidDoc, nested |-> <<>>, damaged |-> FALSE,
     isDir |-> FALSE]

(* An entry of an archive whose compressed data is damaged: the archive   *)
(* opens, the entry cannot be extracted.                                  *)
DamagedEntry(path) ==
    [PlainFile(path, <<>>) EXCEPT !.damaged = TRUE]

(* An entry of an archive that is a directory. *)
DirEntry(path) ==
    [PlainFile(path, <<>>) EXCEPT !.isDir = TRUE]

DeclaredSource(path, hasContent, content, hash) ==
    [path |-> path, hasContent |-> hasContent, content |-> content,
     keccak256 |-> hash, urls |-> NoUrls]

(* A metadata object with the given compilation targets and sources. *)
Metadata(targets, sources) ==
    JsonObject("Solidity", TRUE, targets, sources, <<>>, <<>>)

OneTarget == << [path |-> PathA, name |-> "A"] >>

TwoTargets == << [path |-> PathA, name |-> "A"], [path |-> PathB, name |-> "B"] >>

(* A document with one declared source, to be found through the index. *)
IndexedMetadata ==
    Metadata(OneTarget, << DeclaredSource(PathA, FALSE, <<>>, keccak256(TextALF)) >>)

(* A document with a source of each kind: inline content that has the     *)
(* declared hash; no content and the hash of a text; inline content that  *)
(* has not the declared hash; no content and the hash of a text nobody    *)
(* submits; no content and the hash of the empty text; an empty inline    *)
(* content under the hash of another text; a source named __proto__ with  *)
(* inline content that has the declared hash.                             *)
MixedMetadata ==
    Metadata(OneTarget,
        << DeclaredSource(PathB, TRUE, TextB, keccak256(TextB)),
           DeclaredSource(PathA, FALSE, <<>>, keccak256(TextALF)),
           DeclaredSource(<<"C.sol">>, TRUE, TextB, keccak256(TextALF)),
           DeclaredSource(<<"D.sol">>, FALSE, <<>>, keccak256(<<"b", "b">>)),
           DeclaredSource(<<"E.sol">>, FALSE, <<>>, keccak256(<<>>)),
           DeclaredSource(<<"F.sol">>, TRUE, <<>>, keccak256(TextALF)),
           DeclaredSource(ProtoKey, TRUE, TextB, keccak256(TextB)) >>)

MetadataFiles ==
    { DocFile(<<"mixed.json">>, FALSE, MixedMetadata, <<>>) }

(* A metadata document without a compilation target. *)
MalformedFiles ==
    { DocFile(<<"bad.json">>, FALSE, Metadata(<<>>, IndexedMetadata.sources), <<>>) }

(* Metadata as a JSON string (double encoded), and metadata nested as an  *)
(* escaped string in a JSON object that is no metadata.                   *)
OtherObject == JsonObject("Yul", TRUE, <<>>, <<>>, <<>>, <<>>)

WrappedFiles ==
    << DocFile(<<"truffle.json">>, FALSE, StringDoc(IndexedMetadata), <<>>),
       DocFile(<<"artifact.json">>, FALSE, OtherObject, << StringDoc(IndexedMetadata) >>) >>

(* Build reports (hardhat output): a well-formed one (one of its sources  *)
(* has an empty content, one of its contracts no metadata), one whose     *)
(* embedded metadata has two compilation targets, and a file that holds   *)
(* the marker but is no JSON.  The marker itself is not spelled out in    *)
(* the texts.                                                             *)
Report(sources, contracts) ==
    JsonObject("", FALSE, <<>>, <<>>, << [sources |-> sources] >>,
               << [contracts |-> contracts] >>)

ReportSources ==
    << [path |-> <<"contracts", "A.sol">>, content |-> TextACRLF],
       [path |-> <<"contracts", "Empty.sol">>, content |-> <<>>] >>

ReportFiles ==
    { DocFile(<<"build-info.json">>, TRUE,
              Report(ReportSources, << <<IndexedMetadata>>, <<>> >>), <<>>),
      DocFile(<<"build-info.json">>, TRUE,
              Report(ReportSources, << <<Metadata(TwoTargets, IndexedMetadata.sources)>> >>), <<>>),
      [PlainFile(<<"Marker.sol">>, TextA) EXCEPT !.marker = TRUE] }

(* Plain source files: a text (under the path of a source of the build    *)
(* reports, with other line endings), and a blank file without a path.    *)
SourceFiles ==
    { PlainFile(<<"contracts", "A.sol">>, TextA), PlainFile(<<>>, TextBlank) }

(* Archives: one with a source, a metadata document, a JSON object that   *)
(* is no metadata and a file named __proto__; one with two archives in    *)
(* it, the second holding nothing but a directory, and the wrapped        *)
(* metadata documents; one without entries; one whose second entry is     *)
(* damaged.                                                               *)
InnerZip ==
    ZipFile(<<"lib", "inner.zip">>,
            << PlainFile(<<"contracts", "A.sol">>, TextA) >>)

ZipFiles ==
    { ZipFile(<<"project.zip">>,
              << PlainFile(<<"contracts", "B.sol">>, TextB),
                 DocFile(<<"metadata.json">>, FALSE, IndexedMetadata, <<>>),
                 DocFile(<<"other.json">>, FALSE, OtherObject, <<>>),
                 PlainFile(ProtoKey, <<"b", "a">>) >>),
      ZipFile(<<"outer.zip">>,
              << InnerZip, PlainFile(PathA, TextACRLF),
                 ZipFile(<<"docs.zip">>, << DirEntry(<<"docs">>) >>) >>
                  \o WrappedFiles),
      ZipFile(<<"empty.zip">>, <<>>),
      ZipFile(<<"damaged.zip">>,
              << PlainFile(<<"contracts", "B.sol">>, TextB),
                 DamagedEntry(<<"contracts", "C.sol">>) >>) }

FileUniverse ==
    MetadataFiles \cup MalformedFiles \cup ReportFiles \cup SourceFiles \cup ZipFiles

MaxFiles == 2

RECURSIVE SeqsUpTo(_, _)
SeqsUpTo(S, n) ==
    IF n = 0 THEN { <<>> }
    ELSE LET shorter == SeqsUpTo(S, n - 1)
         IN  shorter \cup { Append(q, x) : q \in shorter, x \in S }

InputLists == SeqsUpTo(FileUniverse, MaxFiles)

-----------------------------------------------------------------------------
(* The state machine.                                                      *)
(*   files     the caller's array of files, which the calls are given      *)
(*   runs      the checkFiles calls made so far, each as the record        *)
(*             checkFiles yields                                           *)
(*   widened   the useAllSources calls made so far                         *)
(*   staging   the staging directories on disk                             *)
(*   dirCount  the number of staging directory names used so far           *)
(*   disk      the files on disk that checkPaths is pointed at             *)
(*   ignoring  the caller's array for the paths checkPaths could not read  *)
(*   pathRuns  the checkPaths calls made so far                            *)

(* The number of calls of the engine a caller makes. *)
MaxCalls == 2

Calls == Len(runs) + Len(widened) + Len(pathRuns)

(* The directory "in" holds the submitted files that have a name, a later *)
(* file of the list in place of an earlier one of the same name.          *)
DiskOf(list) ==
    { [filePath |-> <<"in">> \o list[i].path, buffer |-> list[i]] :
        i \in { i \in DOMAIN list :
                   /\ list[i].path # <<>>
                   /\ \A j \in DOMAIN list : j > i => list[j].path # list[i].path } }

Init ==
    /\ files \in InputLists
    /\ runs = <<>>
    /\ widened = <<>>
    /\ staging = {}
    /\ dirCount = 0
    /\ disk = DiskOf(files)
    /\ ignoring = <<>>
    /\ pathRuns = <<>>

(* The caller invokes checkFiles(files). *)
CheckFiles ==
    /\ Calls < MaxCalls
    /\ \E r \in { checkFiles(files, dirCount, staging) } :
         /\ runs' = Append(runs, r)
         /\ files' = r.files
         /\ staging' = r.staging
         /\ dirCount' = r.dirCount
    /\ UNCHANGED <<widened, disk, ignoring, pathRuns>>

(* The path lists a caller gives checkPaths: a directory and a path that  *)
(* does not exist.                                                        *)
PathLists == { << <<"in">>, <<"nowhere">> >> }

(* The caller invokes checkPaths(paths, ignoring), or checkPaths(paths). *)
CheckPaths ==
    /\ Calls < MaxCalls
    /\ \E paths \in PathLists : \E hasIgnoring \in BOOLEAN :
         \E r \in { checkPaths(paths, hasIgnoring, ignoring, disk, dirCount, staging) } :
           /\ pathRuns' = Append(pathRuns, r)
           /\ ignoring' = r.ignoring
           /\ staging' = r.run.staging
           /\ dirCount' = r.run.dirCount
    /\ UNCHANGED <<files, runs, widened, disk>>

(* The contracts a caller holds: those checkFiles and checkPaths returned *)
(* and those useAllSources returned.                                      *)
HeldContracts ==
    UNION { Range(runs[i].contracts) : i \in DOMAIN runs }
      \cup UNION { Range(pathRuns[i].run.contracts) : i \in DOMAIN pathRuns }
      \cup UNION { Range(widened[i].result) : i \in DOMAIN widened }

(* The caller invokes useAllSources(contract, files). *)
UseAllSources ==
    /\ Calls < MaxCalls
    /\ \E contract \in HeldContracts :
         \E w \in { useAllSources(contract, files, dirCount, staging) } :
           /\ widened' = Append(widened, w)
           /\ files' = w.files
           /\ staging' = w.staging
           /\ dirCount' = w.dirCount
    /\ UNCHANGED <<runs, disk, ignoring, pathRuns>>

Next == CheckFiles \/ CheckPaths \/ UseAllSources

Spec == Init /\ [][Next]_vars

-----------------------------------------------------------------------------
(* Properties.                                                             *)

(* The contracts checkFiles has returned, each with the run and position. *)
Returned == UNION { { <<i, k>> : k \in DOMAIN runs[i].contracts } : i \in DOMAIN runs }

ContractAt(ik) == runs[ik[1]].contracts[ik[2]]

ProvidedAt(ik) == runs[ik[1]].provided[ik[2]]

DeclaredPaths(metadata) == { metadata.sources[j].path : j \in DOMAIN metadata.sources }

(* C1: in every CheckedContract that checkFiles returns, the keys of the  *)
(* found, missing and invalid sources are pairwise disjoint, their union  *)
(* is the set of paths declared in metadata.sources, and their numbers    *)
(* add up to the number of declared sources.                              *)
Partition(c) ==
    LET found   == DOMAIN c.solidity
        missing == DOMAIN c.missing
        invalid == DOMAIN c.invalid
    IN  /\ found \cap missing = {}
        /\ found \cap invalid = {}
        /\ missing \cap invalid = {}
        /\ found \cup missing \cup invalid = DeclaredPaths(c.metadata)
        /\ Cardinality(found) + Cardinality(missing) + Cardinality(invalid)
               = Len(c.metadata.sources)

C1_SourcesPartitioned == \A ik \in Returned : Partition(ContractAt(ik))

(* The declared source of a metadata document at a path. *)
DeclaredAt(metadata, p) ==
    CHOOSE src \in Range(metadata.sources) : src.path = p

(* C2: every found source of a returned contract holds a content whose    *)
(* keccak256 is the hash the metadata declares for that path, whether the *)
(* content was inline or came from the hash index.                        *)
C2_FoundMatchesDeclaredHash ==
    \A ik \in Returned :
        \A p \in DOMAIN ContractAt(ik).solidity :
            /\ p \in DeclaredPaths(ContractAt(ik).metadata)
            /\ keccak256(ContractAt(ik).solidity[p])
                   = DeclaredAt(ContractAt(ik).metadata, p).keccak256

(* A source was found through the index under a variation that no         *)
(* submitted source file has as its text, and another one inline.         *)
C2_Witness ==
    \E ik \in Returned :
        /\ \E p \in DOMAIN ProvidedAt(ik) :
              /\ p \in DOMAIN ContractAt(ik).solidity
              /\ \A f \in Range(runs[ik[1]].sourceFiles) :
                     f.content # ContractAt(ik).solidity[p]
        /\ \E p \in DOMAIN ContractAt(ik).solidity : p \notin DOMAIN ProvidedAt(ik)

(* What C3 says of a declared source with inline content whose hash is    *)
(* not the declared one: it is invalid, with both hashes, neither found   *)
(* nor missing, and has no entry in the path-rewrite map.                 *)
InvalidOnly(ik, src) ==
    LET c == ContractAt(ik) IN
    /\ src.path \in DOMAIN c.invalid
    /\ c.invalid[src.path].expectedHash = src.keccak256
    /\ c.invalid[src.path].calculatedHash = keccak256(src.content)
    /\ src.path \notin DOMAIN c.solidity
    /\ src.path \notin DOMAIN c.missing
    /\ src.path \notin DOMAIN ProvidedAt(ik)

(* C3: a declared source that carries inline content whose recomputed     *)
(* hash differs from the declared hash is recorded as invalid with both   *)
(* hashes, is neither found nor missing, and the hash index is not        *)
(* consulted for it (no path-rewrite entry).                              *)
C3_InlineMismatchIsInvalid ==
    \A ik \in Returned :
        \A src \in Range(ContractAt(ik).metadata.sources) :
            (src.hasContent /\ keccak256(src.content) # src.keccak256)
                => InvalidOnly(ik, src)

(* The sources of a kind that have a variation with the given hash. *)
FilesWithVariation(sourceFiles, hash) ==
    { f \in Range(sourceFiles) :
          \E v \in Range(generateVariations(f)) : keccak256(v.content) = hash }

(* C4: a declared source without inline content whose declared hash is    *)
(* the hash of one of the 18 variations of a submitted source file is     *)
(* found, never missing, and the path-rewrite map maps its path to the    *)
(* path of a submitted file that has such a variation.                    *)
C4_IndexHitIsFound ==
    \A ik \in Returned :
        \A src \in Range(ContractAt(ik).metadata.sources) :
            LET having == FilesWithVariation(runs[ik[1]].sourceFiles, src.keccak256) IN
            (~src.hasContent /\ having # {})
                => /\ src.path \in DOMAIN ContractAt(ik).solidity
                   /\ src.path \notin DOMAIN ContractAt(ik).missing
                   /\ src.path \in DOMAIN ProvidedAt(ik)
                   /\ \E f \in having : ProvidedAt(ik)[src.path] = f.path

(* C5: every metadata document that reaches source resolution, by         *)
(* whichever route it was classified, has exactly one compilationTarget   *)
(* entry: checkFiles fails as a whole whenever a document of the batch    *)
(* has another number of entries.                                         *)
C5_OneCompilationTarget ==
    \A ik \in Returned : Len(ContractAt(ik).metadata.compilationTarget) = 1

(* The metadata documents a file of the flat batch holds, in order: the   *)
(* document itself (direct, double encoded, or nested in another          *)
(* document), or the documents embedded in a build report.                *)
HeldDocs(file) ==
    IF file.marker
    THEN IF file.json.syntax = "object" /\ file.json.output # <<>>
         THEN LET embedded == SelectSeq(file.json.output[1].contracts,
                                  LAMBDA c : c # <<>> /\ extractMetadataFromString(c[1]) # NullDoc)
              IN  [k \in DOMAIN embedded |-> extractMetadataFromString(embedded[k][1])]
         ELSE <<>>
    ELSE IF extractMetadataFromString(file.json) # NullDoc
         THEN << extractMetadataFromString(file.json) >>
    ELSE IF file.nested # <<>> /\ extractMetadataFromString(file.nested[1]) # NullDoc
         THEN << extractMetadataFromString(file.nested[1]) >>
    ELSE <<>>

RECURSIVE BatchDocs(_)
BatchDocs(batch) ==
    IF batch = <<>> THEN <<>> ELSE HeldDocs(Head(batch)) \o BatchDocs(Tail(batch))

(* C6: when no file of the flat batch qualifies as a metadata document,   *)
(* checkFiles throws (with the message "Metadata file not found" unless a *)
(* file holds the build-report marker) and returns no contract; when it   *)
(* returns, the list is not empty and holds one contract per metadata     *)
(* document found, in classification order.                               *)
C6_NoMetadataThrows ==
    \A i \in DOMAIN runs :
        LET r    == runs[i]
            docs == BatchDocs(r.flat)
        IN  /\ docs = <<>> => (r.threw # "" /\ r.contracts = <<>>)
            /\ (docs = <<>> /\ r.flat # <<>> /\ \A f \in Range(r.flat) : ~f.marker)
                   => r.threw = "Metadata file not found"
            /\ r.threw = ""
                   => /\ r.contracts # <<>>
                      /\ [k \in DOMAIN r.contracts |-> r.contracts[k].metadata] = docs

(* A batch of source files without any metadata document was checked. *)
C6_Witness ==
    \E i \in DOMAIN runs :
        /\ runs[i].flat # <<>>
        /\ BatchDocs(runs[i].flat) = <<>>
        /\ runs[i].threw = "Metadata file not found"

(* C7: in a batch with at least one well-formed metadata document and no  *)
(* malformed one, checkFiles does not fail, and every file whose text is  *)
(* no JSON, or is JSON but neither metadata nor a build report, is        *)
(* classified as a source file.                                           *)
C7_LocalFailuresNeverAbort ==
    \A i \in DOMAIN runs :
        LET r    == runs[i]
            docs == BatchDocs(r.flat)
        IN  (docs # <<>> /\ \A d \in Range(docs) : Len(d.compilationTarget) = 1)
                => /\ r.threw = ""
                   /\ \A f \in Range(r.flat) :
                          (f.json.syntax = "invalid" \/ (HeldDocs(f) = <<>> /\ ~f.marker))
                              => [path |-> f.path, content |-> f.text] \in Range(r.sourceFiles)

(* C8: running checkFiles twice in succession on the same input list      *)
(* yields identical results: the same outcome and the same contracts,     *)
(* with the same metadata and the same found, missing and invalid         *)
(* sources.                                                               *)
C8_RerunIdentical ==
    (widened = <<>> /\ Len(runs) >= 2)
        => /\ runs[2].threw = runs[1].threw
           /\ runs[2].contracts = runs[1].contracts

(* The files of a list with every archive replaced by its members that    *)
(* are files, at any nesting depth, each member under its path relative   *)
(* to its archive.                                                        *)
RECURSIVE Expanded(_)
Expanded(list) ==
    IF list = <<>> THEN <<>>
    ELSE (IF Head(list).isZip THEN Expanded(Head(list).members)
          ELSE IF Head(list).isDir THEN <<>>
          ELSE << Head(list) >>)
             \o Expanded(Tail(list))

Occurrences(list, x) == Cardinality({ k \in DOMAIN list : list[k] = x })

SameFiles(a, b) ==
    \A x \in Range(a) \cup Range(b) : Occurrences(a, x) = Occurrences(b, x)

(* C9: archive expansion returns, and the flat list it returns holds no   *)
(* archive and holds every file of the input that is no archive, and      *)
(* every member that is no archive of every archive at any depth, exactly *)
(* once under its path relative to the archive root.                      *)
C9_ExpansionLossless ==
    \A i \in DOMAIN runs :
        /\ runs[i].threw # "Encountered a nonexistent path"
        /\ \A f \in Range(runs[i].flat) : ~f.isZip
        /\ SameFiles(runs[i].flat, Expanded(runs[i].input))

(* The frame of useAllSources: the verified sources are kept unchanged    *)
(* and metadata, missing and invalid sources are those of the input.      *)
WideningFrame(w) ==
    LET res == w.result[1]
        c   == w.contract
    IN  /\ \A p \in DOMAIN c.solidity :
               p \in DOMAIN res.solidity /\ res.solidity[p] = c.solidity[p]
        /\ res.metadata = c.metadata
        /\ res.missing = c.missing
        /\ res.invalid = c.invalid

(* C10 as stated: when useAllSources returns, the sources of the result   *)
(* hold every verified entry unchanged (it wins over a submitted file of  *)
(* the same key) plus every submitted source file under its own path, and *)
(* metadata, missing and invalid sources equal those of the input.        *)
C10_EverySubmittedFileKept ==
    \A k \in DOMAIN widened :
        LET w == widened[k] IN
        w.result # <<>>
            => /\ WideningFrame(w)
               /\ \A f \in Range(w.sourceFiles) :
                      f.path # <<>>
                          => /\ f.path \in DOMAIN w.result[1].solidity
                             /\ f.path \notin DOMAIN w.contract.solidity
                                    => w.result[1].solidity[f.path] = f.content

(* C11: widening a widened contract again with the same submitted files    *)
(* changes nothing.  For every useAllSources(c, F) that returned a         *)
(* contract r, useAllSources(r, F) returns a contract with the metadata,   *)
(* sources, MissingSources and InvalidSources of r, whether F is the       *)
(* caller's array as the first call left it or a list with the files the   *)
(* first call was given, and also when F holds archives or files without a *)
(* path; and so does every later call of the caller that widens r with     *)
(* these files.                                                            *)
Rewidened(w, fileList) == useAllSources(w.result[1], fileList, w.dirCount, w.staging)

WidenedTwice(j, k) ==
    /\ j < k
    /\ widened[j].result # <<>>
    /\ widened[k].contract = widened[j].result[1]
    /\ widened[k].input \in {widened[j].input, widened[j].files}

C11_WideningIdempotent ==
    /\ \A j \in DOMAIN widened :
           widened[j].result # <<>> =>
               \A fileList \in {widened[j].input, widened[j].files} :
                   Rewidened(widened[j], fileList).result = widened[j].result
    /\ \A j \in DOMAIN widened : \A k \in DOMAIN widened :
           WidenedTwice(j, k) => widened[k].result = widened[j].result

(* A contract was widened with a list that holds an archive and a file     *)
(* without a path, the widening added sources, and widening the result     *)
(* with the caller's array returns a contract.                             *)
C11_Witness ==
    \E j \in DOMAIN widened :
        /\ widened[j].result # <<>>
        /\ \E i \in DOMAIN widened[j].input : isZip(widened[j].input[i])
        /\ \E i \in DOMAIN widened[j].sourceFiles : widened[j].sourceFiles[i].path = <<>>
        /\ DOMAIN widened[j].result[1].solidity # DOMAIN widened[j].contract.solidity
        /\ Rewidened(widened[j], widened[j].files).result # <<>>

(* C12: no staging directory outlives the invocation that created it.      *)
(* Whenever a call of checkFiles or useAllSources has ended, by returning  *)
(* or by throwing, no staging directory made by unzip is left on disk.     *)
C12_NoStagingDirectoryLeft ==
    staging = {}

=============================================================================
